---- MODULE Spec2Model ----
(***************************************************************************)
(* WPE dereverberation (btk20_src/dereverberation/dereverberation.cc):     *)
(* SingleChannelWPEDereverberationFeature, MultiChannelWPEDereverberation  *)
(* and its per-channel views MultiChannelWPEDereverberationFeature.        *)
(*                                                                         *)
(* Complex numbers are pairs <<re, im>> of integers.  A frame is a         *)
(* function from subband index to complex number.  One behaviour drives    *)
(* one object graph: either a single-channel feature over one source, or  *)
(* a multi-channel coordinator over ChannelsN sources with one view per    *)
(* channel.                                                                *)
(***************************************************************************)
EXTENDS Integers, Sequences, FiniteSets, TLC

\* ----- bounds of the model
SubbandsN == 4
ChannelsN == 2
MaxSrcLen == 2
MaxFrameNo == 2
MaxSolutions == 1

\* ----- constants of the program
\* 1 / subband_floor_ (subband_floor_ = 1.0E-03)
SubbandFloorInv == 1000
\* frame_no_ of a coordinator before its first step
initial_frame_no_ == -1
\* frame_no_ of a feature stream before its first step and after reset()
frame_reset_no_ == -1
\* the frame_no argument of a call next() that names no index
NoIndex == -5
\* the channel every view is constructed with as primaryChannelX
PrimaryChannelX == 0

Subbands == 0 .. (SubbandsN - 1)
Channels == 0 .. (ChannelsN - 1)
HalfN == SubbandsN \div 2

\* ----- complex arithmetic (gsl_complex_*)
Zero == <<0, 0>>
CAdd(a, b) == <<a[1] + b[1], a[2] + b[2]>>
CSub(a, b) == <<a[1] - b[1], a[2] - b[2]>>
CMul(a, b) == <<a[1] * b[1] - a[2] * b[2], a[1] * b[2] + a[2] * b[1]>>
Conj(a) == <<a[1], 0 - a[2]>>
Norm2(a) == a[1] * a[1] + a[2] * a[2]

\* gsl_blas_zdotc(x, y): sum over i < n of conj(x[i]) * y[i]
RECURSIVE ZDotC(_, _, _)
ZDotC(x, y, n) ==
  IF n = 0 THEN Zero
  ELSE CAdd(ZDotC(x, y, n - 1), CMul(Conj(x[n - 1]), y[n - 1]))

ZeroFrame == [s \in Subbands |-> Zero]

VARIABLES
  cfg,          \* construction parameters and the data of the sources
  srcPos,       \* per source: number of frames delivered since its last reset()
  res,          \* outcome of the last call made on the objects
  exhausted,    \* history: a step signalled end-of-stream and no source was rewound since
  replay,       \* history: progress of the replay 0, 1, .. after an estimation
  scEstimated, scFramesN, scFrameNo, scIsEnd, scYn, scGn, scVector, scThetan,
  mcEstimated, mcFramesN, mcFrameNo, mcFrames, mcGn, mcOutput, mcThetan,
  viewFrameNo

srcVars == <<srcPos>>
histVars == <<exhausted, replay>>
scVars == <<scEstimated, scFramesN, scFrameNo, scIsEnd, scYn, scGn, scVector, scThetan>>
mcVars == <<mcEstimated, mcFramesN, mcFrameNo, mcFrames, mcGn, mcOutput, mcThetan>>
vars == <<cfg, srcPos, res, exhausted, replay, scVars, mcVars, viewFrameNo>>

\* ----- construction parameters
lowerN == cfg.lowerN
upperN == cfg.upperN
predictionN == upperN - lowerN + 1
totalPredictionN == predictionN * ChannelsN
iterationsN == cfg.iterationsN

\* bandWidth is given in quarters of the Nyquist rate (sampleRate / 2)
BandWidthDen == 4
set_band_width_(bandWidth) ==
  IF bandWidth = 0 THEN HalfN
  ELSE (bandWidth * HalfN) \div BandWidthDen

lower_bandWidthN == set_band_width_(cfg.bandWidth)
upper_bandWidthN == SubbandsN - lower_bandWidthN

\* a test that skips no subband
InBand_every(subbandX) == subbandX >= 0

\* the test of estimate_Gn_ and of the streaming step: the subband is filtered
InBand(subbandX) == (subbandX <= lower_bandWidthN) \/ (subbandX >= upper_bandWidthN)

\* ----- the subband sources (one per channel)
\* Every sample of every channel, frame and subband has its own value.
\* the frames are arbitrary, not conjugate-symmetric.
SrcSample(c, t, s) == <<1 + s + 10 * t + 50 * c, 1 + s + t>>
SrcFrame(c, t) == [s \in Subbands |-> SrcSample(c, t, s)]
\* A buffered frame is a copy of a frame of the source and is never written:
\* the buffers hold the index t of the frame in the source of its channel.
Sample(c, t, s) == SrcFrame(c, t)[s]
SrcHasNext(pos, c) == pos[c] < cfg.srcLen[c]

\* contents of memory that gsl_vector_complex_alloc returns without clearing it
Uninit(i) == IF cfg.garbage THEN <<3 + i, 2>> ELSE Zero


\* the outcome of a call: op names the method, c the view it was made on, n the
\* requested frame index (the value returned, for an estimation), prev the
\* callee's frame_no_ when the call was made, kind how the call ended, ret the
\* frame a feature stream's next() returned (ZeroFrame when it returned none),
\* cprev the coordinator's frame_no_ when a step was made on one of its views,
\* start and end the arguments of an estimation
Outcome(op, c, n, prev, kind) ==
  [op |-> op, c |-> c, n |-> n, prev |-> prev, kind |-> kind, ret |-> ZeroFrame,
   cprev |-> 0, start |-> 0, end |-> 0]
Returned(op, c, n, prev, ret) ==
  [op |-> op, c |-> c, n |-> n, prev |-> prev, kind |-> "frame", ret |-> ret,
   cprev |-> 0, start |-> 0, end |-> 0]

\* history of the replay of the frames 0, 1, .. after an estimation: next is
\* the index the replay has to request next
NoReplay == [state |-> "none", next |-> 0]
ReplayFailed == [state |-> "failed", next |-> 0]
Replaying(k) == [state |-> "replaying", next |-> k]

\* the replay after a step that requested index n: N is the value the
\* estimation returned, ok tells that the step returned a frame
ReplayStep(n, N, ok) ==
  IF replay.state = "replaying" /\ replay.next < N /\ n = replay.next
  THEN (IF ok THEN Replaying(replay.next + 1) ELSE ReplayFailed)
  ELSE NoReplay

\* a sequencing test that rejects gaps only: a step backwards or a repeat passes
OutOfSequence_gaps_only(frame_no, prev) == frame_no >= 0 /\ frame_no - 1 > prev

\* a sequencing test that is skipped while the callee's counter is at its
\* initial value: the first step may request any index
OutOfSequence_free_first(frame_no, prev) ==
  prev # -1 /\ frame_no >= 0 /\ frame_no - 1 # prev

\* the sequencing test of a step: frame_no is the requested index, prev the
\* callee's frame_no_
OutOfSequence(frame_no, prev) == frame_no >= 0 /\ frame_no - 1 # prev

\* ======================================================================
\* SingleChannelWPEDereverberationFeature
\* ======================================================================

\* get_lags_(subbandX, sampleX) over the buffer yn (yn_[i] is yn[i + 1]).
\* sampleX is unsigned in the code and index is int: sampleX - lagX wraps
\* to the signed difference, so a "negative" sampleX yields negative indices.
SC_get_lags_(yn, subbandX, sampleX) ==
  [lagX \in 0 .. (predictionN - 1) |->
     LET index == sampleX - lagX
     IN IF index < 0 THEN Zero ELSE Sample(0, yn[index + 1], subbandX)]

\* the loop of fill_buffer_ from iteration frX on: the buffer and the
\* position of the source when the loop ends
RECURSIVE SC_fill_loop(_, _, _, _, _)
SC_fill_loop(yn, pos, frX, start_frame_no, end_frame_no) ==
  IF end_frame_no >= 0 /\ frX >= end_frame_no THEN [yn |-> yn, pos |-> pos]
  ELSE IF frX >= start_frame_no
       THEN IF ~SrcHasNext(pos, 0) THEN [yn |-> yn, pos |-> pos]
            ELSE SC_fill_loop(Append(yn, pos[0]),
                              [pos EXCEPT ![0] = @ + 1],
                              frX + 1, start_frame_no, end_frame_no)
       ELSE SC_fill_loop(yn, pos, frX + 1, start_frame_no, end_frame_no)

SC_fill_buffer_(start_frame_no, end_frame_no) ==
  SC_fill_loop(scYn, srcPos, 0, start_frame_no, end_frame_no)

\* a power value thetan * thetan as a fraction <<numerator, denominator>>
FloorSquared == <<1, SubbandFloorInv * SubbandFloorInv>>
ThetaZero == <<0, 1>>
\* |current| < subband_floor_: samples are integral and SubbandFloorInv >= 1, so
\* |current|^2 * SubbandFloorInv^2 < 1 exactly when |current|^2 < 1
BelowFloor(current) == SubbandFloorInv >= 1 /\ Norm2(current) < 1
Power(current) ==
  IF BelowFloor(current) THEN FloorSquared ELSE <<Norm2(current), 1>>

\* thetan_ is NULL, or a matrix of framesN_ rows that is all zero as
\* fill_buffer_ leaves it ("zero"), or that calc_Thetan_ has written ("computed")
NullTheta == "null"
ZeroTheta == "zero"
ComputedTheta == "computed"
\* thetan_ during an estimation: its status and, once calc_Thetan_ has written
\* it, the predictors calc_Thetan_ computed it from
ThetaAfterFill(predictors) == [status |-> ZeroTheta, from |-> predictors]

\* calc_Thetan_ over the buffer yn with the predictors gn
SC_calc_Thetan_(yn, gn) ==
        [i \in 1 .. Len(yn) |->
           [s \in Subbands |->
              LET sampleX == i - 1
                  current == IF sampleX >= lowerN
                             THEN CSub(Sample(0, yn[i], s),
                                       ZDotC(gn[s], SC_get_lags_(yn, s, sampleX - lowerN), predictionN))
                             ELSE Sample(0, yn[i], s)
              IN Power(current)]]

\* what gsl_linalg_complex_cholesky_solve leaves in a predictor of length n:
\* solution g of the system of subband s for channel c
SolveIds == 1 .. MaxSolutions
Solution(g, c, s, n) == [k \in 0 .. (n - 1) |-> <<g + s + c, 1 + k>>]
ZeroVector(n) == [k \in 0 .. (n - 1) |-> Zero]

\* R_ is zero before loading when no buffered frame has index >= lowerN_
NoStatistics(framesN) == framesN <= lowerN

\* the subbands estimate_Gn_ solves, in the order of its loop
SolvedSubbands == {s \in Subbands : InBand(s)}
\* where a failing decomposition is placed: at the first or at the last
\* subband the loop solves
FailSubbands ==
  {s \in SolvedSubbands : (\A x \in SolvedSubbands : s <= x) \/ (\A x \in SolvedSubbands : s >= x)}

\* estimate_Gn_ from iteration iterationX on: the set of its possible results
\* [kind, gn, thetan].  kind is "numeric_error" when a Cholesky decomposition
\* fails at subband failX: the subbands before it hold the new solution.
RECURSIVE SC_estimate_loop(_, _, _, _)
SC_estimate_loop(yn, gn, theta, iterationX) ==
  IF iterationX >= iterationsN
  THEN {[kind |-> "ok", gn |-> gn, thetan |-> theta.status, from |-> theta.from]}
  ELSE LET th == [status |-> ComputedTheta, from |-> gn]
           Solved(g, upto) ==
             [s \in Subbands |->
                IF InBand(s) /\ s < upto THEN Solution(g, 0, s, predictionN) ELSE gn[s]]
           Failures ==
             {[kind |-> "numeric_error", gn |-> Solved(g, failX), thetan |-> th.status,
               from |-> th.from] :
                g \in SolveIds,
                failX \in (IF NoStatistics(Len(yn)) THEN {0} ELSE FailSubbands)}
           Successes ==
             IF NoStatistics(Len(yn)) THEN {}
             ELSE UNION {SC_estimate_loop(yn, Solved(g, SubbandsN), th, iterationX + 1) :
                           g \in SolveIds}
       IN Failures \cup Successes

SC_estimate_Gn_(yn, thetan) ==
  SC_estimate_loop(yn, scGn, [ThetaAfterFill(scGn) EXCEPT !.status = thetan], 0)

\* the entries of thetan_ over the buffer yn: zero as fill_buffer_ leaves them
\* (gsl_matrix_set_zero, line 93), or as the last calc_Thetan_ wrote them
SC_power(yn, thetan, from) ==
  IF thetan = ComputedTheta THEN SC_calc_Thetan_(yn, from)
  ELSE [i \in 1 .. Len(yn) |-> [s \in Subbands |-> ThetaZero]]

\* lines 251-258 of next(): push the current frame to the buffer
SC_push(yn, current) ==
  IF Len(yn) >= predictionN
  THEN [i \in 1 .. Len(yn) |->
          IF i < predictionN THEN yn[i + 1]
          ELSE IF i = predictionN THEN current ELSE yn[i]]
  ELSE Append(yn, current)

\* the value written at subbandX <= size()/2 (lines 261-268)
SC_cur(yn, current, gn, frame_no, subbandX) ==
  IF (frame_no >= lowerN) /\ InBand(subbandX)
  THEN CSub(Sample(0, current, subbandX),
            ZDotC(gn[subbandX], SC_get_lags_(yn, subbandX, Len(yn) - 1 - lowerN), predictionN))
  ELSE Sample(0, current, subbandX)

\* the value of the subband copied to its mirror as it is
Mirror_copy(cur) == cur

\* the value written at the mirror of subband subbandX (line 271)
Mirror(cur) == Conj(cur)

\* vector_ after the loop of lines 260-272: subbands 0 .. size()/2 and their mirrors
SC_output(vector, yn, current, gn, frame_no) ==
  [i \in Subbands |->
     IF i <= HalfN THEN SC_cur(yn, current, gn, frame_no, i)
     ELSE IF (SubbandsN - i) > 0 /\ (SubbandsN - i) < HalfN
          THEN Mirror(SC_cur(yn, current, gn, frame_no, SubbandsN - i))
          ELSE vector[i]]

IsSingle == cfg.variant = "single"

\* estimated_ set before estimate_Gn_ is run: an estimation that throws sets it too
EstimatedAfter_always(kind, estimated) == TRUE

\* estimated_ when estimate_filter is left: the assignment of line 222 (428)
\* is reached only when estimate_Gn_ has not thrown
EstimatedAfter(kind, estimated) == IF kind = "ok" THEN TRUE ELSE estimated

SC_estimate_filter(start_frame_no, end_frame_no) ==
  /\ IsSingle
  /\ LET fb == SC_fill_buffer_(start_frame_no, end_frame_no)
         framesN == Len(fb.yn)
     IN \E out \in SC_estimate_Gn_(fb.yn, ZeroTheta) :
          /\ scFramesN' = framesN
          /\ scThetan' = out.thetan
          /\ scGn' = out.gn
          /\ scEstimated' = EstimatedAfter(out.kind, scEstimated)
          /\ IF out.kind = "ok"
             THEN /\ srcPos' = [srcPos EXCEPT ![0] = 0]
                  /\ scYn' = <<>>
                  /\ exhausted' = FALSE
                  /\ replay' = IF ~scEstimated /\ framesN <= cfg.srcLen[0] THEN Replaying(0) ELSE NoReplay
             ELSE /\ srcPos' = fb.pos
                  /\ scYn' = fb.yn
                  /\ UNCHANGED exhausted
                  /\ replay' = NoReplay
          /\ res' = [Outcome("estimate_filter", 0, framesN, 0, out.kind)
                       EXCEPT !.start = start_frame_no, !.end = end_frame_no]
  /\ UNCHANGED <<cfg, scFrameNo, scIsEnd, scVector, mcVars, viewFrameNo>>

SC_next_rejected(frame_no, kind) ==
  /\ res' = Outcome("next", 0, frame_no, scFrameNo, kind)
  /\ replay' = ReplayStep(frame_no, scFramesN, FALSE)
  /\ UNCHANGED <<cfg, srcPos, exhausted, scVars, mcVars, viewFrameNo>>

SC_next(frame_no) ==
  /\ IsSingle
  /\ IF ~scEstimated THEN SC_next_rejected(frame_no, "init_error")
     ELSE IF frame_no = scFrameNo
     THEN /\ res' = Returned("next", 0, frame_no, scFrameNo, scVector)
          /\ replay' = ReplayStep(frame_no, scFramesN, TRUE)
          /\ UNCHANGED <<cfg, srcPos, exhausted, scVars, mcVars, viewFrameNo>>
     ELSE IF OutOfSequence(frame_no, scFrameNo)
     THEN SC_next_rejected(frame_no, "index_error")
     ELSE /\ scFrameNo < MaxFrameNo
          /\ scFrameNo' = scFrameNo + 1
          /\ IF ~SrcHasNext(srcPos, 0)
             THEN /\ scIsEnd' = TRUE
                  /\ exhausted' = TRUE
                  /\ res' = Outcome("next", 0, frame_no, scFrameNo, "end")
                  /\ replay' = ReplayStep(frame_no, scFramesN, FALSE)
                  /\ UNCHANGED <<srcPos, scYn, scVector>>
             ELSE LET current == srcPos[0]
                      yn == SC_push(scYn, current)
                      vector == SC_output(scVector, yn, current, scGn, scFrameNo + 1)
                  IN /\ srcPos' = [srcPos EXCEPT ![0] = @ + 1]
                     /\ scYn' = yn
                     /\ scVector' = vector
                     /\ res' = Returned("next", 0, frame_no, scFrameNo, vector)
                     /\ replay' = ReplayStep(frame_no, scFramesN, TRUE)
                     /\ UNCHANGED <<scIsEnd, exhausted>>
          /\ UNCHANGED <<cfg, scEstimated, scFramesN, scGn, scThetan, mcVars, viewFrameNo>>

\* VectorComplexFeatureStream::reset() as used at lines 289 and 732
SC_reset ==
  /\ IsSingle
  /\ srcPos' = [srcPos EXCEPT ![0] = 0]
  /\ scFrameNo' = frame_reset_no_
  /\ scIsEnd' = FALSE
  /\ scYn' = <<>>
  /\ exhausted' = FALSE
  /\ replay' = NoReplay
  /\ res' = Outcome("reset", 0, 0, 0, "ok")
  /\ UNCHANGED <<cfg, scEstimated, scFramesN, scGn, scVector, scThetan, mcVars, viewFrameNo>>

SC_reset_filter ==
  /\ IsSingle
  /\ scEstimated' = FALSE
  /\ scFramesN' = 0
  /\ scThetan' = NullTheta
  /\ replay' = NoReplay
  /\ res' = Outcome("reset_filter", 0, 0, 0, "ok")
  /\ UNCHANGED <<cfg, srcPos, exhausted, scFrameNo, scIsEnd, scYn, scGn, scVector, mcVars, viewFrameNo>>

SC_next_speaker ==
  /\ IsSingle
  /\ srcPos' = [srcPos EXCEPT ![0] = 0]
  /\ scFrameNo' = frame_reset_no_
  /\ scIsEnd' = FALSE
  /\ scYn' = <<>>
  /\ scGn' = [s \in Subbands |-> ZeroVector(predictionN)]
  /\ exhausted' = FALSE
  /\ replay' = NoReplay
  /\ res' = Outcome("next_speaker", 0, 0, 0, "ok")
  /\ UNCHANGED <<cfg, scEstimated, scFramesN, scVector, scThetan, mcVars, viewFrameNo>>


\* ======================================================================
\* MultiChannelWPEDereverberation
\* ======================================================================

\* get_lags_(subbandX, sampleX) over the braces frames: channel-major, then lag
MC_get_lags_(frames, subbandX, sampleX) ==
  [totalX \in 0 .. (totalPredictionN - 1) |->
     LET channelX == totalX \div predictionN
         lagX == totalX % predictionN
         index == sampleX - lagX
     IN IF index < 0 THEN Zero ELSE Sample(channelX, frames[index + 1][channelX], subbandX)]

\* the first channel whose source has no frame left (ChannelsN when all have one)
FirstExhausted(pos) ==
  IF \A c \in Channels : SrcHasNext(pos, c) THEN ChannelsN
  ELSE CHOOSE c \in Channels :
         /\ ~SrcHasNext(pos, c)
         /\ \A d \in Channels : d < c => SrcHasNext(pos, d)

\* the sources after the channels before channel k delivered one frame each
PulledBefore(pos, k) == [c \in Channels |-> IF c < k THEN pos[c] + 1 ELSE pos[c]]
Brace(pos) == [c \in Channels |-> pos[c]]

\* the loop of fill_buffer_ from iteration frX on.  When a source is exhausted
\* in the middle of a brace, end_frame_no becomes 0 and the loop ends at its
\* next test; the channels before it have delivered a frame that is dropped.
RECURSIVE MC_fill_loop(_, _, _, _, _)
MC_fill_loop(frames, pos, frX, start_frame_no, end_frame_no) ==
  IF end_frame_no >= 0 /\ frX >= end_frame_no THEN [frames |-> frames, pos |-> pos]
  ELSE IF frX >= start_frame_no
       THEN IF FirstExhausted(pos) < ChannelsN
            THEN MC_fill_loop(frames, PulledBefore(pos, FirstExhausted(pos)),
                              frX + 1, start_frame_no, 0)
            ELSE MC_fill_loop(Append(frames, Brace(pos)), PulledBefore(pos, ChannelsN),
                              frX + 1, start_frame_no, end_frame_no)
       ELSE MC_fill_loop(frames, pos, frX + 1, start_frame_no, end_frame_no)

MC_fill_buffer_(start_frame_no, end_frame_no) ==
  MC_fill_loop(mcFrames, srcPos, 0, start_frame_no, end_frame_no)

\* calc_Thetan_ over the braces frames with the predictors Gn
MC_calc_Thetan_(frames, Gn) ==
  [channelX \in Channels |->
            [i \in 1 .. Len(frames) |->
              [s \in Subbands |->
                 LET sampleX == i - 1
                     current == IF sampleX >= lowerN
                                THEN CSub(Sample(channelX, frames[i][channelX], s),
                                          ZDotC(Gn[channelX][s],
                                                MC_get_lags_(frames, s, sampleX - lowerN),
                                                totalPredictionN))
                                ELSE Sample(channelX, frames[i][channelX], s)
                 IN Power(current)]]]

\* where a failing decomposition is placed: at the first or at the last
\* system <<subband, channel>> the loops solve
FailSystems ==
  {f \in FailSubbands \X {0, ChannelsN - 1} :
     \/ (f[2] = 0 /\ \A x \in SolvedSubbands : f[1] <= x)
     \/ (f[2] = ChannelsN - 1 /\ \A x \in SolvedSubbands : f[1] >= x)}

\* estimate_Gn_ from iteration iterationX on: the set of its possible results.
\* A failing decomposition at (failX, failC) throws jnumeric_error: the
\* predictors solved before it hold the new solution.  With no statistics R_
\* is diagonal_bias * I and r_ is zero: the solution is zero, or the
\* decomposition of the first system fails (diagonal_bias <= 0).
RECURSIVE MC_estimate_loop(_, _, _, _)
MC_estimate_loop(frames, Gn, theta, iterationX) ==
  IF iterationX >= iterationsN
  THEN {[kind |-> "ok", Gn |-> Gn, thetan |-> theta.status, from |-> theta.from]}
  ELSE LET th == [status |-> ComputedTheta, from |-> Gn]
           none == NoStatistics(Len(frames))
           Solved(g, uptoX, uptoC) ==
             [c \in Channels |->
                [s \in Subbands |->
                   IF InBand(s) /\ (s < uptoX \/ (s = uptoX /\ c < uptoC))
                   THEN (IF none THEN ZeroVector(totalPredictionN)
                         ELSE Solution(g, c, s, totalPredictionN))
                   ELSE Gn[c][s]]]
           Failures ==
             {[kind |-> "numeric_error", Gn |-> Solved(g, f[1], f[2]), thetan |-> th.status,
               from |-> th.from] :
                g \in SolveIds,
                f \in (IF none THEN {<<0, 0>>} ELSE FailSystems)}
           Successes ==
             UNION {MC_estimate_loop(frames, Solved(g, SubbandsN, 0), th, iterationX + 1) :
                      g \in SolveIds}
       IN Failures \cup Successes

MC_estimate_Gn_(frames, thetan) ==
  MC_estimate_loop(frames, mcGn, [ThetaAfterFill(mcGn) EXCEPT !.status = thetan], 0)

\* the entries of thetan_ over the braces frames: zero as fill_buffer_ leaves
\* them (gsl_matrix_set_zero, line 536), or as the last calc_Thetan_ wrote them
MC_power(frames, thetan, from) ==
  IF thetan = ComputedTheta THEN MC_calc_Thetan_(frames, from)
  ELSE [channelX \in Channels |-> [i \in 1 .. Len(frames) |-> [s \in Subbands |-> ThetaZero]]]

\* lines 471-481 of calc_every_channel_output(): push the brace to the buffer
MC_push(frames, fbrace) ==
  IF Len(frames) >= predictionN
  THEN [i \in 1 .. Len(frames) |->
          IF i < predictionN THEN frames[i + 1]
          ELSE IF i = predictionN THEN fbrace ELSE frames[i]]
  ELSE Append(frames, fbrace)

\* the value written for channel channelX at subbandX <= size()/2 (lines 487-493)
MC_cur(frames, fbrace, Gn, frame_no, channelX, subbandX) ==
  IF (frame_no >= lowerN) /\ InBand(subbandX)
  THEN CSub(Sample(channelX, fbrace[channelX], subbandX),
            ZDotC(Gn[channelX][subbandX],
                  MC_get_lags_(frames, subbandX, Len(frames) - 1 - lowerN),
                  totalPredictionN))
  ELSE Sample(channelX, fbrace[channelX], subbandX)

\* output_ after the loops of lines 484-498
MC_output(output, frames, fbrace, Gn, frame_no) ==
  [channelX \in Channels |->
     [i \in Subbands |->
        IF i <= HalfN THEN MC_cur(frames, fbrace, Gn, frame_no, channelX, i)
        ELSE IF (SubbandsN - i) > 0 /\ (SubbandsN - i) < HalfN
             THEN Mirror(MC_cur(frames, fbrace, Gn, frame_no, channelX, SubbandsN - i))
             ELSE output[channelX][i]]]

\* calc_every_channel_output(frame_no): how it ends, and the coordinator and
\* the sources when it has ended
MC_calc(frame_no) ==
  LET same == [kind |-> "init_error", frameNo |-> mcFrameNo, frames |-> mcFrames,
               output |-> mcOutput, pos |-> srcPos]
  IN IF ~mcEstimated THEN same
     ELSE IF OutOfSequence(frame_no, mcFrameNo)
     THEN [same EXCEPT !.kind = "index_error"]
     ELSE IF FirstExhausted(srcPos) < ChannelsN
     THEN [same EXCEPT !.kind = "end",
                       !.frameNo = mcFrameNo + 1,
                       !.pos = PulledBefore(srcPos, FirstExhausted(srcPos))]
     ELSE LET fbrace == Brace(srcPos)
              frames == MC_push(mcFrames, fbrace)
          IN [kind |-> "frame",
              frameNo |-> mcFrameNo + 1,
              frames |-> frames,
              output |-> MC_output(mcOutput, frames, fbrace, mcGn, mcFrameNo + 1),
              pos |-> PulledBefore(srcPos, ChannelsN)]

\* the call passes the two tests of calc_every_channel_output and increments frame_no_
MC_increments(frame_no) == mcEstimated /\ ~OutOfSequence(frame_no, mcFrameNo)

\* the coordinator is driven directly, or through its views
IsMulti == cfg.variant = "multi"
IsViews == cfg.variant = "views"
IsCoordinator == IsMulti \/ IsViews

MC_estimate_filter(start_frame_no, end_frame_no) ==
  /\ IsCoordinator
  /\ LET fb == MC_fill_buffer_(start_frame_no, end_frame_no)
         framesN == Len(fb.frames)
     IN \E out \in MC_estimate_Gn_(fb.frames, ZeroTheta) :
          /\ mcFramesN' = framesN
          /\ mcThetan' = out.thetan
          /\ mcGn' = out.Gn
          /\ mcEstimated' = EstimatedAfter(out.kind, mcEstimated)
          /\ IF out.kind = "ok"
             THEN /\ srcPos' = [c \in Channels |-> 0]
                  /\ mcFrames' = <<>>
                  /\ exhausted' = FALSE
                  /\ replay' = IF ~mcEstimated /\ (\A c \in Channels : framesN <= cfg.srcLen[c])
                               THEN Replaying(0) ELSE NoReplay
             ELSE /\ srcPos' = fb.pos
                  /\ mcFrames' = fb.frames
                  /\ UNCHANGED exhausted
                  /\ replay' = NoReplay
          /\ res' = [Outcome("estimate_filter", 0, framesN, 0, out.kind)
                       EXCEPT !.start = start_frame_no, !.end = end_frame_no]
  /\ UNCHANGED <<cfg, mcFrameNo, mcOutput, scVars, viewFrameNo>>

MC_calc_every_channel_output(frame_no) ==
  /\ IsMulti
  /\ MC_increments(frame_no) => mcFrameNo < MaxFrameNo
  /\ LET r == MC_calc(frame_no)
     IN /\ mcFrameNo' = r.frameNo
        /\ mcFrames' = r.frames
        /\ mcOutput' = r.output
        /\ srcPos' = r.pos
        /\ exhausted' = (exhausted \/ r.kind = "end")
        /\ replay' = ReplayStep(frame_no, mcFramesN, r.kind = "frame")
        /\ res' = Outcome("calc", 0, frame_no, mcFrameNo, r.kind)
  /\ UNCHANGED <<cfg, mcEstimated, mcFramesN, mcGn, mcThetan, scVars, viewFrameNo>>

MC_reset ==
  /\ IsMulti
  /\ mcFrameNo' = initial_frame_no_
  /\ srcPos' = [c \in Channels |-> 0]
  /\ mcFrames' = <<>>
  /\ exhausted' = FALSE
  /\ replay' = NoReplay
  /\ res' = Outcome("reset", 0, 0, 0, "ok")
  /\ UNCHANGED <<cfg, mcEstimated, mcFramesN, mcGn, mcOutput, mcThetan, scVars, viewFrameNo>>

MC_reset_filter ==
  /\ IsMulti
  /\ mcEstimated' = FALSE
  /\ mcFramesN' = 0
  /\ mcFrames' = <<>>
  /\ replay' = NoReplay
  /\ res' = Outcome("reset_filter", 0, 0, 0, "ok")
  /\ UNCHANGED <<cfg, srcPos, exhausted, mcFrameNo, mcGn, mcOutput, mcThetan, scVars, viewFrameNo>>

MC_next_speaker ==
  /\ IsMulti
  /\ mcFrameNo' = initial_frame_no_
  /\ srcPos' = [c \in Channels |-> 0]
  /\ mcFrames' = <<>>
  /\ mcGn' = [c \in Channels |-> [s \in Subbands |-> ZeroVector(totalPredictionN)]]
  /\ exhausted' = FALSE
  /\ replay' = NoReplay
  /\ res' = Outcome("next_speaker", 0, 0, 0, "ok")
  /\ UNCHANGED <<cfg, mcEstimated, mcFramesN, mcOutput, mcThetan, scVars, viewFrameNo>>

\* ======================================================================
\* MultiChannelWPEDereverberationFeature: the view of channel channelX
\* ======================================================================

\* the buffer of the primary channel, whatever the channel asked for
get_output_primary(output, channelX) == output[PrimaryChannelX]

\* get_output(channelX) for a valid channel
get_output(output, channelX) == output[channelX]

MCF_next(channelX, frame_no) ==
  /\ IsViews
  /\ LET primary == (channelX = PrimaryChannelX)
         r == IF primary THEN MC_calc(frame_no)
              ELSE [kind |-> "frame", frameNo |-> mcFrameNo, frames |-> mcFrames,
                    output |-> mcOutput, pos |-> srcPos]
         rejected == OutOfSequence(frame_no, viewFrameNo[channelX])
         kind == IF r.kind # "frame" THEN r.kind
                 ELSE IF rejected THEN "index_error" ELSE "frame"
     IN /\ (primary /\ MC_increments(frame_no)) => mcFrameNo < MaxFrameNo
        /\ kind = "frame" => viewFrameNo[channelX] < MaxFrameNo
        /\ mcFrameNo' = r.frameNo
        /\ mcFrames' = r.frames
        /\ mcOutput' = r.output
        /\ srcPos' = r.pos
        /\ exhausted' = (exhausted \/ r.kind = "end")
        /\ viewFrameNo' = IF kind = "frame"
                          THEN [viewFrameNo EXCEPT ![channelX] = @ + 1]
                          ELSE viewFrameNo
        /\ replay' = NoReplay
        /\ res' = [(IF kind = "frame"
                    THEN Returned("view_next", channelX, frame_no, viewFrameNo[channelX],
                                  get_output(r.output, channelX))
                    ELSE Outcome("view_next", channelX, frame_no, viewFrameNo[channelX], kind))
                   EXCEPT !.cprev = mcFrameNo]
  /\ UNCHANGED <<cfg, mcEstimated, mcFramesN, mcGn, mcThetan, scVars>>

MCF_reset(channelX) ==
  /\ IsViews
  /\ mcFrameNo' = initial_frame_no_
  /\ srcPos' = [c \in Channels |-> 0]
  /\ mcFrames' = <<>>
  /\ viewFrameNo' = [viewFrameNo EXCEPT ![channelX] = frame_reset_no_]
  /\ exhausted' = FALSE
  /\ replay' = NoReplay
  /\ res' = Outcome("view_reset", channelX, 0, 0, "ok")
  /\ UNCHANGED <<cfg, mcEstimated, mcFramesN, mcGn, mcOutput, mcThetan, scVars>>

\* ======================================================================
\* The system
\* ======================================================================

\* <<lowerN, upperN>>
LagWindows == {<<0, 1>>, <<1, 1>>}
Iterations == {0, 1}
\* the sources of one object hold the same number of frames: MaxSrcLen, as
\* many as the steps 0 .. MaxFrameNo can consume, or one frame more, so that
\* frames remain in the sources after an estimation has consumed MaxSrcLen
SrcLengths(framesN) == [c \in Channels |-> framesN]
LongSrcLen == MaxSrcLen + 1

ConfigsOf(variant, bandWidths, garbages, lengths) ==
  {[variant |-> variant, lowerN |-> w[1], upperN |-> w[2], iterationsN |-> it,
    bandWidth |-> bw, garbage |-> gb, srcLen |-> SrcLengths(ln)] :
     w \in LagWindows, it \in Iterations, bw \in bandWidths, gb \in garbages,
     ln \in lengths}

Configs ==
  ConfigsOf("single", {0, 1, 2}, {FALSE}, {MaxSrcLen})
    \cup ConfigsOf("multi", {2}, BOOLEAN, {MaxSrcLen})
    \cup ConfigsOf("multi", {2}, {FALSE}, {LongSrcLen})
    \cup ConfigsOf("views", {2}, BOOLEAN, {MaxSrcLen})

EstimateArgs == {<<0, -1>>, <<1, MaxSrcLen>>}
FrameNos == {NoIndex} \cup (0 .. MaxFrameNo)

Init ==
  /\ cfg \in Configs
  /\ srcPos = [c \in Channels |-> 0]
  /\ res = Outcome("construct", 0, 0, 0, "ok")
  /\ exhausted = FALSE
  /\ replay = NoReplay
  /\ scEstimated = FALSE
  /\ scFramesN = 0
  /\ scFrameNo = frame_reset_no_
  /\ scIsEnd = FALSE
  /\ scYn = <<>>
  /\ scGn = [s \in Subbands |-> ZeroVector(predictionN)]
  /\ scVector = ZeroFrame
  /\ scThetan = NullTheta
  /\ mcEstimated = FALSE
  /\ mcFramesN = 0
  /\ mcFrameNo = initial_frame_no_
  /\ mcFrames = <<>>
  /\ mcGn = [c \in Channels |-> [s \in Subbands |-> [k \in 0 .. (totalPredictionN - 1) |-> Uninit(k)]]]
  /\ mcOutput = [c \in Channels |-> [s \in Subbands |-> Uninit(s)]]
  /\ mcThetan = NullTheta
  /\ viewFrameNo = [c \in Channels |-> frame_reset_no_]

Next ==
  \/ \E a \in EstimateArgs : SC_estimate_filter(a[1], a[2])
  \/ \E n \in FrameNos : SC_next(n)
  \/ SC_reset
  \/ SC_reset_filter
  \/ SC_next_speaker
  \/ \E a \in EstimateArgs : MC_estimate_filter(a[1], a[2])
  \/ \E n \in FrameNos : MC_calc_every_channel_output(n)
  \/ MC_reset
  \/ MC_reset_filter
  \/ MC_next_speaker
  \/ \E c \in Channels, n \in FrameNos : MCF_next(c, n)
  \/ \E c \in Channels : MCF_reset(c)

Spec == Init /\ [][Next]_vars

\* ======================================================================
\* Properties
\* ======================================================================

\* the last call was a streaming step
StepOps == {"next", "calc", "view_next"}
IsStep == res.op \in StepOps
\* estimated_ of the object the steps run on (no step changes it)
Estimated == IF IsSingle THEN scEstimated ELSE mcEstimated
\* the last call was a step on view c
IsViewStep(c) == res.op = "view_next" /\ res.c = c
NonPrimary == Channels \ {PrimaryChannelX}

\* ----- C1
\* C1 (pre-estimation guard): while no estimate_filter() has completed since
\* construction or since the last reset_filter(), every streaming step - the
\* single-channel next, calc_every_channel_output, and next on every channel
\* view, primary or not - ends with an initialization error and returns no frame.
C1_PreEstimationGuard ==
  (IsStep /\ ~Estimated) => (res.kind = "init_error")

\* ----- C2
\* the last call was a step on an estimated filter that requested an index
\* n >= 0 other than p + 1, p >= 0 being the callee's counter left by a
\* former step
C2_Case ==
  IsStep /\ Estimated /\ res.prev >= 0 /\ res.n >= 0 /\ res.n # res.prev + 1

\* the step was made on the primary view and the coordinator, whose counter
\* differed from the view's, was asked for its next index
C2_CoordinatorAccepted ==
  IsViewStep(PrimaryChannelX) /\ res.n = res.cprev + 1

C3_Case ==
  /\ IsStep /\ Estimated /\ res.prev = frame_reset_no_ /\ res.n >= 0
  /\ IsViewStep(PrimaryChannelX) => res.cprev = initial_frame_no_

C4_BatchThenReplay ==
  replay.state # "failed"

\* ----- C5
\* the last call was a step that pulled frame t of the source(s) as step t
C5_SingleStep ==
  /\ res.op = "next" /\ res.kind = "frame"
  /\ scFrameNo = res.prev + 1
  /\ srcPos[0] = scFrameNo + 1
  /\ scFrameNo >= lowerN
C5_MultiStep ==
  /\ res.op = "calc" /\ res.kind = "frame"
  /\ \A c \in Channels : srcPos[c] = mcFrameNo + 1
  /\ mcFrameNo >= lowerN

\* the raw input of subband s of channel c at frame t (zero before frame 0)
C5_Raw(c, t, s) == IF t >= 0 THEN Sample(c, t, s) ELSE Zero

\* C5 (streaming lag vector): in a step for frame t >= lowerN, for every
\* active subband s and every lag k < predictionN, entry k of the lag vector
\* (of every channel block, for the coordinator) is the raw input of subband s
\* at frame t - lowerN - k, or zero when that index is negative: the lag
\* vector read from the streaming buffer is the one of the batch buffer.
C5_StreamingLagVector ==
  /\ C5_SingleStep =>
       \A s \in Subbands, k \in 0 .. (predictionN - 1) :
         InBand(s) =>
           SC_get_lags_(scYn, s, Len(scYn) - 1 - lowerN)[k]
             = C5_Raw(0, scFrameNo - lowerN - k, s)
  /\ C5_MultiStep =>
       \A s \in Subbands, c \in Channels, k \in 0 .. (predictionN - 1) :
         InBand(s) =>
           MC_get_lags_(mcFrames, s, Len(mcFrames) - 1 - lowerN)[c * predictionN + k]
             = C5_Raw(c, mcFrameNo - lowerN - k, s)

\* ----- C6
\* the last call was a step that produced a new frame: the output of channel
\* c and the index of the frame of the source it was made from
C6_SingleStep == res.op = "next" /\ res.kind = "frame" /\ scFrameNo = res.prev + 1
C6_MultiStep == (res.op = "calc" \/ IsViewStep(PrimaryChannelX)) /\ res.kind = "frame"
C6_Out(c) == IF IsSingle THEN res.ret ELSE mcOutput[c]
C6_In(c, s) == Sample(c, srcPos[c] - 1, s)
C6_Outputs == IF IsSingle THEN {0} ELSE Channels
C6_Skipped(s) == lower_bandWidthN < s /\ s < upper_bandWidthN

\* C6 as stated (passthrough): after every successful step, for every subband
\* s with lower_bandWidthN < s < upper_bandWidthN, those above size()/2
\* included, the output at s is the raw input at s of the same frame.
C6_Passthrough ==
  (C6_SingleStep \/ C6_MultiStep) =>
    \A c \in C6_Outputs, s \in Subbands :
      C6_Skipped(s) => C6_Out(c)[s] = C6_In(c, s)

\* C6 as the code has it: the output at a skipped subband s <= size()/2 is the
\* raw input at s; the output at a skipped subband above size()/2 is the
\* conjugate of the raw input at its mirror size() - s.
C6_PassthroughAsCoded ==
  (C6_SingleStep \/ C6_MultiStep) =>
    \A c \in C6_Outputs, s \in Subbands :
      C6_Skipped(s) =>
        /\ (s <= HalfN) => C6_Out(c)[s] = C6_In(c, s)
        /\ (s > HalfN /\ SubbandsN - s < HalfN) =>
             C6_Out(c)[s] = Conj(C6_In(c, SubbandsN - s))

\* a step wrote a skipped subband above size()/2 with a value that is not its input
C6_Witness ==
  /\ C6_SingleStep
  /\ \E s \in Subbands :
       /\ C6_Skipped(s) /\ s > HalfN
       /\ res.ret[s] = Conj(C6_In(0, SubbandsN - s))
       /\ res.ret[s] # C6_In(0, s)

\* ----- C7
C7_Symmetric(out) ==
  \A s \in Subbands :
    (0 < s /\ s < HalfN) => out[SubbandsN - s] = Conj(out[s])

C8_ZeroIterationIdentity ==
  (iterationsN = 0 /\ Estimated) =>
    IF IsSingle
    THEN \A s \in Subbands : scGn[s] = ZeroVector(predictionN)
    ELSE \A c \in Channels, s \in Subbands : mcGn[c][s] = ZeroVector(totalPredictionN)

\* ----- C9
\* the step about to be recorded is a pull on a non-primary view
C9_NonPrimaryPull == res'.op = "view_next" /\ res'.c \in NonPrimary

\* C9 (output sharing): a pull on a non-primary view c - in particular the
\* pull for frame n that follows the primary view's pull for frame n - returns
\* the buffer of channel c as the joint computation left it, pulls no source
\* and changes neither the coordinator's counter, nor its lag buffer, nor a
\* cached output.
C9_OutputSharing ==
  [][C9_NonPrimaryPull =>
       /\ UNCHANGED <<srcPos, mcFrameNo, mcFrames, mcOutput>>
       /\ (res'.kind = "frame") => (res'.ret = mcOutput[res'.c])]_vars

\* a non-primary view was pulled for frame n after the primary view, and
\* returned an output of the joint computation for frame n that was filtered
C9_Witness ==
  /\ res.op = "view_next" /\ res.c \in NonPrimary /\ res.kind = "frame"
  /\ res.n >= 0
  /\ mcFrameNo = res.n
  /\ viewFrameNo[PrimaryChannelX] = res.n
  /\ \A c \in Channels : srcPos[c] = res.n + 1
  /\ res.ret = mcOutput[res.c]
  /\ res.ret # mcOutput[PrimaryChannelX]
  /\ res.ret[0] # C6_In(res.c, 0)

\* ----- C10
\* every source has delivered all its frames, one per step since its last reset
C10_SourcesAtEnd ==
  \A c \in (IF IsSingle THEN {0} ELSE Channels) :
    /\ srcPos[c] = cfg.srcLen[c]
    /\ srcPos[c] = (IF IsSingle THEN scFrameNo ELSE mcFrameNo)

\* C10 (exhaustion is never masked): once a step has signalled end-of-stream,
\* every later step made without a reset of the sources in between - a repeated
\* request for the same index included - signals end-of-stream or an error,
\* and returns no frame.
C10_ExhaustionNotMasked ==
  (IsStep /\ exhausted /\ C10_SourcesAtEnd) => (res.kind # "frame")

\* ----- C11
\* the step about to be recorded is an estimation
C11_Estimation == res'.op = "estimate_filter"
\* every source is at its first frame
C11_AtFirstFrame == \A c \in (IF IsSingle THEN {0} ELSE Channels) : srcPos[c] = 0
\* the indices of [start, end) that the sources hold, in order
C11_LastX(end_frame_no) ==
  IF end_frame_no < 0 \/ end_frame_no > cfg.srcLen[0] THEN cfg.srcLen[0] ELSE end_frame_no
C11_Window(start_frame_no, end_frame_no) ==
  [i \in 1 .. (IF C11_LastX(end_frame_no) > start_frame_no
               THEN C11_LastX(end_frame_no) - start_frame_no ELSE 0) |->
     start_frame_no + i - 1]
\* the source frames in the buffer the estimation works on, and the number of
\* frames the call pulls from a source
C11_Buffered ==
  IF IsSingle THEN SC_fill_buffer_(res'.start, res'.end).yn
  ELSE [i \in 1 .. Len(MC_fill_buffer_(res'.start, res'.end).frames) |->
          MC_fill_buffer_(res'.start, res'.end).frames[i][PrimaryChannelX]]
C11_Pulled ==
  IF IsSingle THEN SC_fill_buffer_(res'.start, res'.end).pos[0] - srcPos[0]
  ELSE Len(MC_fill_buffer_(res'.start, res'.end).frames) - Len(mcFrames)

\* C11 (estimation window and return value): estimate_filter(start, end),
\* started with the source at its first frame, buffers exactly the source
\* frames with indices in [start, end) (up to end-of-stream), and the value it
\* returns is the number of frames pulled from the source during the call,
\* frames left in the buffer before the call not included.
C11_EstimationWindow ==
  [][C11_Estimation =>
       /\ C11_AtFirstFrame => (C11_Buffered = C11_Window(res'.start, res'.end))
       /\ res'.n = C11_Pulled]_vars

\* ----- C12
\* estimated_ after the step about to be recorded
C12_EstimatedNext == IF IsSingle THEN scEstimated' ELSE mcEstimated'
C12_Completed == res'.op = "estimate_filter" /\ res'.kind = "ok"
C12_ResetFilter == res'.op = "reset_filter"

\* C12 (estimated-state machine): the filter is Estimated exactly when an
\* estimate_filter() has completed since the last reset_filter() or since
\* construction.  A completed estimate_filter() leaves it Estimated and
\* reset_filter() leaves it Unestimated; no other call - reset(),
\* next_speaker(), a streaming step, an estimation that fails with a numeric
\* error - changes the state.
C12_EstimatedStateMachine ==
  [][/\ C12_Completed => C12_EstimatedNext
     /\ C12_ResetFilter => ~C12_EstimatedNext
     /\ (~C12_Completed /\ ~C12_ResetFilter) => (C12_EstimatedNext = Estimated)]_vars

\* an estimation failed with a numeric error on a filter that reset_filter()
\* had made Unestimated after streaming, and left it Unestimated
C12_Witness ==
  /\ res.op = "estimate_filter" /\ res.kind = "numeric_error"
  /\ ~Estimated
  /\ (IF IsSingle THEN scFrameNo ELSE mcFrameNo) >= 0

\* ----- C13
\* the last call was a streaming step that completed with a new frame: the
\* length of the frame buffer after it
C13_Completed == C6_SingleStep \/ C6_MultiStep
C13_BufferLen == IF IsSingle THEN Len(scYn) ELSE Len(mcFrames)

\* C13 (bounded streaming buffer): after any sequence of estimations
\* (completed, or aborted by a numeric error), resets, filter resets, speaker
\* changes and streaming steps, the frame buffer holds at most predictionN
\* entries whenever a streaming step completes.
C13_BoundedBuffer ==
  C13_Completed => (C13_BufferLen <= predictionN)

\* ----- C14
\* a power value p = <<numerator, denominator>> is at least subband_floor_
\* squared, 1 / SubbandFloorInv^2 (compared without the product of the two
\* large terms)
C14_AtLeastFloor(p) ==
  p[1] >= (p[2] + FloorSquared[2] - 1) \div FloorSquared[2]
\* the entries of the matrices thetan_ that the estimation of this step may
\* leave allocated, given how it ended and the predictors it left
C14_Entries ==
  IF IsSingle
  THEN LET fb == SC_fill_buffer_(res'.start, res'.end)
       IN UNION {{SC_power(fb.yn, out.thetan, out.from)[i][s] :
                     i \in 1 .. Len(fb.yn), s \in Subbands} :
                   out \in {o \in SC_estimate_Gn_(fb.yn, ZeroTheta) :
                              o.kind = res'.kind /\ o.gn = scGn'}}
  ELSE LET fb == MC_fill_buffer_(res'.start, res'.end)
       IN UNION {{MC_power(fb.frames, out.thetan, out.from)[c][i][s] :
                     c \in Channels, i \in 1 .. Len(fb.frames), s \in Subbands} :
                   out \in {o \in MC_estimate_Gn_(fb.frames, ZeroTheta) :
                              o.kind = res'.kind /\ o.Gn = mcGn'}}

\* C14 (power floor): every entry of the power matrix theta is at least
\* subband_floor_ squared in every state in which the matrix is allocated, for
\* every iterationsN >= 0: here in the state an estimation leaves.
C14_PowerFloor ==
  [][C11_Estimation => \A p \in C14_Entries : C14_AtLeastFloor(p)]_vars

\* ----- C15
\* this step is a streaming step that ends with an initialization or a
\* sequencing error
C15_Rejected == res'.op \in StepOps /\ res'.kind \in {"init_error", "index_error"}
\* the streaming state: the frame counters, the lag buffers, the cached
\* outputs and the positions of the sources
C15_StreamingState ==
  <<srcPos, scFrameNo, scIsEnd, scYn, scVector, mcFrameNo, mcFrames, mcOutput, viewFrameNo>>

\* C15 (rejected steps have no effect): a streaming step that fails with an
\* initialization or sequencing error leaves the caller's frame counter, the
\* coordinator's frame counter, the lag buffer, the cached outputs and the
\* positions of the sources unchanged, also on the primary view whose counter
\* disagrees with the coordinator's.
C15_RejectedStepsHaveNoEffect ==
  [][C15_Rejected => UNCHANGED C15_StreamingState]_vars

====
